---------------------------- MODULE Spec2Model ----------------------------
(***************************************************************************)
(* A model of the two Amplify client scripts:                              *)
(*   doc_sum.py            upload one file, poll its status, summarize     *)
(*   document_analyzer.py  scan a directory, upload and poll each file,    *)
(*                         ask for an organization plan, save it           *)
(* The HTTP API, the file system and the clock are the environment: every  *)
(* request draws its outcome from a small set.                             *)
(***************************************************************************)
EXTENDS Integers, Sequences, FiniteSets, TLC

VARIABLES
    fs,     \* the file system under the scanned root: [root, tree]
    scan,   \* scan_directory_for_files called alone: [pc, result]
    ext,    \* _extract_text_from_amplify_response called alone: [pc, resp, out]
    poll,   \* the running wait_for_file_processing call (either script)
    srv,    \* the API's side: files registered, ids observed "ready"
    up,     \* the last upload_file_to_amplify call and what it did
    pipe,   \* summarize_document / generate_organization_plan in progress
    out     \* what the pipeline left behind: request sent, output dir and file

vars == <<fs, scan, ext, poll, srv, up, pipe, out>>

-----------------------------------------------------------------------------
(* Bounds of the model.                                                    *)

MaxTreeFiles == 2       \* files in a scanned tree
MaxAttempts == 3        \* max_attempts of a direct poller call
MaxWait == 2            \* wait_seconds of a direct poller call
MaxLeaves == 2          \* text-bearing fields set in a chat response

-----------------------------------------------------------------------------
(* Sequences and sets.                                                     *)

RECURSIVE SetToSeq(_)
SetToSeq(S) ==
    IF S = {} THEN <<>>
    ELSE LET x == CHOOSE y \in S : TRUE IN <<x>> \o SetToSeq(S \ {x})

RECURSIVE Flatten(_)
Flatten(ss) ==
    IF ss = <<>> THEN <<>> ELSE Head(ss) \o Flatten(Tail(ss))

Range(s) == {s[i] : i \in 1..Len(s)}

Count(s, x) == Cardinality({i \in 1..Len(s) : s[i] = x})

-----------------------------------------------------------------------------
(* File names are sequences of characters, so that the extension is        *)
(* computed as os.path.splitext and str.lower compute it.                  *)

FN_a_py == <<"a", ".", "p", "y">>
FN_b_TXT == <<"b", ".", "T", "X", "T">>
FN_b_txt == <<"b", ".", "t", "x", "t">>
FN_c_exe == <<"c", ".", "e", "x", "e">>
FN_dot_py == <<".", "p", "y">>
FN_m == <<"m">>
FN_d_md_bak == <<"d", ".", "m", "d", ".", "b", "a", "k">>

LowerChar(c) ==
    CASE c = "T" -> "t"
      [] c = "X" -> "x"
      [] c = "P" -> "p"
      [] c = "Y" -> "y"
      [] OTHER -> c

Lower(s) == [i \in 1..Len(s) |-> LowerChar(s[i])]

\* os.path.splitext(file)[1]: from the last dot on, unless only dots precede it.
SplitExt(name) ==
    LET dots == {i \in 1..Len(name) : name[i] = "."}
    IN  IF dots = {} THEN <<>>
        ELSE LET dotIndex == CHOOSE i \in dots : \A j \in dots : j <= i
             IN  IF \E k \in 1..(dotIndex - 1) : name[k] # "."
                 THEN SubSeq(name, dotIndex, Len(name))
                 ELSE <<>>

get_supported_file_extensions ==
    { <<".", "p", "y">>, <<".", "j", "s">>, <<".", "t", "s">>,
      <<".", "j", "a", "v", "a">>, <<".", "c", "p", "p">>, <<".", "c">>,
      <<".", "c", "s">>, <<".", "p", "h", "p">>, <<".", "r", "b">>,
      <<".", "g", "o">>, <<".", "r", "s">>, <<".", "s", "w", "i", "f", "t">>,
      <<".", "k", "t">>, <<".", "s", "c", "a", "l", "a">>, <<".", "r">>,
      <<".", "m">>, <<".", "p", "l">>, <<".", "s", "h">>, <<".", "s", "q", "l">>,
      <<".", "h", "t", "m", "l">>, <<".", "c", "s", "s">>, <<".", "x", "m", "l">>,
      <<".", "j", "s", "o", "n">>, <<".", "y", "a", "m", "l">>,
      <<".", "y", "m", "l">>, <<".", "m", "d">>, <<".", "t", "x", "t">>,
      <<".", "p", "d", "f">>, <<".", "d", "o", "c", "x">>,
      <<".", "p", "p", "t", "x">>, <<".", "x", "l", "s", "x">> }

ExcludedDirs == {".git", "__pycache__", "node_modules", ".venv", "venv", "env"}

\* line 357-358: the file's lower-cased extension is in the allow-list
IsSupported(name) == SplitExt(Lower(name)) \in get_supported_file_extensions

\* line 354: dirs[:] = [d for d in dirs if d not in [...]]
KeepDirsBug(dirs) == dirs
KeepDirs(dirs) == {d \in dirs : d \notin ExcludedDirs}

\* A tree is the set of its files; a file is [dir, name], dir the directory
\* names from the root down.
FilesIn(tree, d) == {p \in tree : p.dir = d}

SubDirs(tree, d) ==
    {p.dir[Len(d) + 1] : p \in {q \in tree : /\ Len(q.dir) > Len(d)
                                             /\ SubSeq(q.dir, 1, Len(d)) = d}}

\* os.walk, top down: a directory's files, then its kept subdirectories.
RECURSIVE Walk(_, _)
Walk(tree, d) ==
    LET files == SetToSeq(FilesIn(tree, d))
        found == SelectSeq(files, LAMBDA p : IsSupported(p.name))
        dirs  == SetToSeq(KeepDirs(SubDirs(tree, d)))
    IN  found \o Flatten([i \in 1..Len(dirs) |-> Walk(tree, Append(d, dirs[i]))])

scan_directory_for_files(root, tree) ==
    IF root # "dir" THEN <<>> ELSE Walk(tree, <<>>)

-----------------------------------------------------------------------------
(* The trees scanned.                                                      *)

ScanDirs ==
    { <<>>, <<"src">>, <<".git">>, <<"src", "env">>, <<"src", "lib">>,
      <<"venv", "src">> }

ScanNames == {FN_a_py, FN_b_TXT, FN_c_exe, FN_dot_py, FN_m, FN_d_md_bak}

ScanPaths == {[dir |-> d, name |-> n] : d \in ScanDirs, n \in ScanNames}

RootKinds == {"dir", "file", "missing"}

\* The sets of at most k of the paths.
RECURSIVE UpTo(_, _)
UpTo(paths, k) ==
    IF k = 0 THEN {{}}
    ELSE UpTo(paths, k - 1)
         \cup {t \cup {x} : t \in UpTo(paths, k - 1), x \in paths}

Trees(paths) == UpTo(paths, MaxTreeFiles)


-----------------------------------------------------------------------------
(* JSON values.  A leaf is absent, null, a string or a number; s is the    *)
(* string itself, or the JSON text of the number.                          *)

Absent == [t |-> "absent", s |-> ""]
Str(x) == [t |-> "str", s |-> x]
Num(x) == [t |-> "num", s |-> x]

\* Python truth of a value got with dict.get (an absent key gives None).
Truthy(j) ==
    CASE j.t = "str" -> j.s # ""
      [] j.t = "num" -> j.s # "0"
      [] OTHER -> FALSE

\* a or b
Or(a, b) == IF Truthy(a) THEN a ELSE b

Quote(x) == "\"" \o x \o "\""

\* json.dumps of a leaf
DumpsLeaf(j) == IF j.t = "str" THEN Quote(j.s) ELSE j.s

\* lines 382, 386: x if isinstance(x, str) else json.dumps(x)
TextOrDumps(j) == IF j.t = "str" THEN j.s ELSE DumpsLeaf(j)

LeafSlots ==
    { "d.output", "d.text", "d.content", "f.text", "f.content",
      "m.content", "m.text", "m.body", "r.content", "r.text", "r.body" }

\* The key a slot stands for and the container holding it.
KeyOf(p) ==
    CASE p \in {"d.output"} -> "output"
      [] p \in {"d.text", "f.text", "m.text", "r.text"} -> "text"
      [] p \in {"d.content", "f.content", "m.content", "r.content"} -> "content"
      [] OTHER -> "body"

SlotsOf(c) ==
    CASE c = "d" -> <<"d.output", "d.text", "d.content">>
      [] c = "f" -> <<"f.text", "f.content">>
      [] c = "m" -> <<"m.content", "m.text", "m.body">>
      [] OTHER -> <<"r.content", "r.text", "r.body">>

\* A chat response.  top: None or a dict; extra: the dict has a key other
\* than "data"; data, choices, first, message, response: the shape of
\* resp["data"], data["choices"], choices[0], first["message"] and
\* first["response"]; leaf: the text-bearing fields of the dicts among them.
NoLeaves == [p \in LeafSlots |-> Absent]

RespNone ==
    [top |-> "none", extra |-> FALSE, data |-> "absent", dataStr |-> "",
     choices |-> "absent", first |-> "absent", message |-> "absent",
     response |-> "absent", leaf |-> NoLeaves]

RespDict(extra, data, dataStr) ==
    [RespNone EXCEPT !.top = "dict", !.extra = extra, !.data = data,
                     !.dataStr = dataStr]

RespChoices(extra, choices, first, message, response, leaf) ==
    [top |-> "dict", extra |-> extra, data |-> "dict", dataStr |-> "",
     choices |-> choices, first |-> first, message |-> message,
     response |-> response, leaf |-> leaf]

HasDict(r, c) ==
    LET d == r.top = "dict" /\ r.data = "dict"
        f == d /\ r.choices = "list" /\ r.first = "dict"
    IN  CASE c = "d" -> d
          [] c = "f" -> f
          [] c = "m" -> f /\ r.message = "dict"
          [] OTHER -> f /\ r.response = "dict"

\* bool(resp): None and {} are false
RespTruthy(r) == r.top = "dict" /\ (r.extra \/ r.data # "absent")

\* bool(d) of the dict in container c: it has a key
DictTruthy(r, c) ==
    \/ \E i \in 1..Len(SlotsOf(c)) : r.leaf[SlotsOf(c)[i]].t # "absent"
    \/ c = "d" /\ r.choices # "absent"
    \/ c = "f" /\ (r.message # "absent" \/ r.response # "absent")

\* json.dumps, keys in the order the slots are listed.
DumpsItems(r, c) ==
    LET slots == SelectSeq(SlotsOf(c), LAMBDA p : r.leaf[p].t # "absent")
    IN  [i \in 1..Len(slots) |->
            Quote(KeyOf(slots[i])) \o ": " \o DumpsLeaf(r.leaf[slots[i]])]

RECURSIVE Join(_)
Join(items) ==
    IF items = <<>> THEN ""
    ELSE IF Len(items) = 1 THEN items[1]
    ELSE items[1] \o ", " \o Join(Tail(items))

DumpsMsg(r, c, shape) ==
    CASE shape = "dict" -> "{" \o Join(DumpsItems(r, c)) \o "}"
      [] shape = "str" -> Quote("hello")
      [] OTHER -> "null"

DumpsFirst(r) ==
    CASE r.first = "dict" ->
            "{" \o Join(
                (IF r.message # "absent"
                 THEN <<Quote("message") \o ": " \o DumpsMsg(r, "m", r.message)>>
                 ELSE <<>>) \o
                (IF r.response # "absent"
                 THEN <<Quote("response") \o ": " \o DumpsMsg(r, "r", r.response)>>
                 ELSE <<>>) \o
                DumpsItems(r, "f")) \o "}"
      [] OTHER -> Quote("first")

DumpsChoices(r) ==
    CASE r.choices = "list" -> "[" \o DumpsFirst(r) \o "]"
      [] r.choices = "empty" -> "[]"
      [] r.choices = "str" -> Quote("none")
      [] OTHER -> "null"

DumpsData(r) ==
    CASE r.data = "dict" ->
            "{" \o Join(
                (IF r.choices # "absent"
                 THEN <<Quote("choices") \o ": " \o DumpsChoices(r)>>
                 ELSE <<>>) \o
                DumpsItems(r, "d")) \o "}"
      [] r.data = "str" -> Quote(r.dataStr)
      [] r.data = "list" -> "[1]"
      [] OTHER -> "null"

\* json.dumps(resp)
Dumps(r) ==
    "{" \o Join(
        (IF r.data # "absent"
         THEN <<Quote("data") \o ": " \o DumpsData(r)>> ELSE <<>>) \o
        (IF r.extra THEN <<Quote("status") \o ": 200">> ELSE <<>>)) \o "}"

-----------------------------------------------------------------------------
(* _extract_text_from_amplify_response.  A probe that raises inside one of *)
(* the two try blocks (None.get, str.get, list.get) leaves that block with *)
(* nothing found.                                                          *)

Miss == [hit |-> FALSE, text |-> ""]
Hit(x) == [hit |-> TRUE, text |-> x]

\* dict.get(key) on the dict in container c
Get(r, c, p) == IF HasDict(r, c) THEN r.leaf[p] ELSE Absent

\* line 378: msg = first.get("message") or first.get("response") or {}
\* the container msg names: "m", "r", the string message ("str") or {} ("none")
MsgOf(r) ==
    LET truthy(shape, c) == shape = "str" \/ (shape = "dict" /\ DictTruthy(r, c))
    IN  CASE truthy(r.message, "m") -> IF r.message = "dict" THEN "m" ELSE "str"
          [] truthy(r.response, "r") -> IF r.response = "dict" THEN "r" ELSE "str"
          [] OTHER -> "none"

\* lines 379-382
FromMessage(r) ==
    LET c == MsgOf(r)
    IN  IF c \in {"m", "r"}
        THEN LET content == Or(Or(Get(r, c, c \o ".content"), Get(r, c, c \o ".text")),
                               Get(r, c, c \o ".body"))
             IN  IF Truthy(content) THEN Hit(TextOrDumps(content)) ELSE Miss
        ELSE Miss

\* lines 384-386
FromFirst(r) ==
    LET text == Or(Get(r, "f", "f.text"), Get(r, "f", "f.content"))
    IN  IF Truthy(text) THEN Hit(TextOrDumps(text)) ELSE Miss

\* lines 373-388: the first try block
FromChoices(r) ==
    IF r.data = "dict" /\ r.choices = "list" /\ r.first = "dict"
    THEN IF FromMessage(r).hit THEN FromMessage(r) ELSE FromFirst(r)
    ELSE Miss

\* lines 397-399: the first of output, text, content that is a string
FromDataKeys(r) ==
    LET keys == SelectSeq(SlotsOf("d"), LAMBDA p : r.leaf[p].t = "str")
    IN  IF keys = <<>> THEN Miss ELSE Hit(r.leaf[keys[1]].s)

\* lines 391-401: the second try block
FromData(r) ==
    CASE r.data = "str" -> Hit(r.dataStr)
      [] r.data = "dict" -> FromDataKeys(r)
      [] OTHER -> Miss

_extract_text_from_amplify_response(r) ==
    IF ~RespTruthy(r) THEN ""
    ELSE IF FromChoices(r).hit THEN FromChoices(r).text
    ELSE IF FromData(r).hit THEN FromData(r).text
    ELSE Dumps(r)

\* The shapes of the responses the extraction is tried on.
Shapes ==
    {RespNone}
    \cup {RespDict(e, d, "") : e \in BOOLEAN, d \in {"absent", "null", "list"}}
    \cup {RespDict(e, "str", x) : e \in BOOLEAN, x \in {"", "top"}}
    \cup {RespChoices(e, c, "absent", "absent", "absent", NoLeaves) :
            e \in BOOLEAN, c \in {"absent", "null", "str", "empty"}}
    \cup {RespChoices(e, "list", "str", "absent", "absent", NoLeaves) :
            e \in BOOLEAN}
    \cup {RespChoices(e, "list", "dict", m, rr, NoLeaves) :
            e \in BOOLEAN, m \in {"absent", "str", "dict"},
            rr \in {"absent", "str", "dict"}}

SettableSlots(r) ==
    {p \in LeafSlots : \E c \in {"d", "f", "m", "r"} :
        /\ HasDict(r, c)
        /\ \E i \in 1..Len(SlotsOf(c)) : SlotsOf(c)[i] = p}

-----------------------------------------------------------------------------
(* The API's side.  files: the file records, oldest first, as the          *)
(* files/query listing sorted by createdAt returns them; a record is made  *)
(* when an upload is registered (the metadata POST), mine: by this run.    *)
(* readySeen: the ids whose processing state a poller saw to be "ready".   *)

NoId == 0

Item(name, id, status, mine) ==
    [name |-> name, id |-> id, status |-> status, mine |-> mine]

\* What GET /files/<id>/status may answer: a status, or an error.
DsOutcomes == {"ready", "failed", "pending", "READY", "error"}

\* What POST /files/query may answer: an error (query_files returns None),
\* every record, or only the records older than this run's uploads.
DaOutcomes == {"error", "all", "lag"}

Listing(o) ==
    IF o = "all" THEN srv.files
    ELSE SelectSeq(srv.files, LAMBDA it : ~it.mine)

-----------------------------------------------------------------------------
(* wait_for_file_processing, one loop iteration per step.                  *)
(*   which "ds": doc_sum.py, by file id, returns ret (True / False)        *)
(*   which "da": document_analyzer.py, by file name, returns found (an id, *)
(*               or None)                                                  *)
(* seen: the outcomes of its queries; late: queries made after "ready",    *)
(* "failed" or a listing holding the name was seen.                        *)

PollIdle ==
    [pc |-> "idle", which |-> "none", file_id |-> NoId, file_name |-> <<>>,
     max_attempts |-> 0, wait_seconds |-> 0, attempt |-> 1, queries |-> 0,
     sleeps |-> 0, slept |-> 0, seen |-> {}, late |-> 0, ret |-> FALSE,
     found |-> NoId]

PollCall(which, file_id, file_name, max_attempts, wait_seconds) ==
    [PollIdle EXCEPT !.pc = "loop", !.which = which, !.file_id = file_id,
                     !.file_name = file_name, !.max_attempts = max_attempts,
                     !.wait_seconds = wait_seconds]

Terminal == {"ready", "failed", "match"}

\* requests.get / query_files: one more query, its outcome seen
Query(p, o) ==
    [p EXCEPT !.queries = @ + 1, !.seen = @ \cup {o},
              !.late = IF p.seen \cap Terminal # {} THEN @ + 1 ELSE @]

\* time.sleep(wait_seconds)
SleepBackoff(p) ==
    [p EXCEPT !.sleeps = @ + 1, !.slept = @ + p.wait_seconds * p.attempt]
Sleep(p) == [p EXCEPT !.sleeps = @ + 1, !.slept = @ + p.wait_seconds]

NextAttempt(p) == [p EXCEPT !.attempt = @ + 1]

Return(p, ret, found) == [p EXCEPT !.pc = "done", !.ret = ret, !.found = found]

\* doc_sum.py lines 93-98: "return True", "return False" or "continue"
DsVerdictLoose(state) ==
    CASE state \in {"ready", "READY"} -> "return True"
      [] state = "failed" -> "return False"
      [] OTHER -> "continue"
DsVerdict(state) ==
    CASE state = "ready" -> "return True"
      [] state = "failed" -> "return False"
      [] OTHER -> "continue"

\* doc_sum.py lines 85-102
DsPollAttempt ==
    /\ poll.pc = "loop" /\ poll.which = "ds"
    /\ poll.attempt <= poll.max_attempts
    /\ \E o \in DsOutcomes :
        LET q == Query(poll, o)
            v == IF o = "error" THEN "continue" ELSE DsVerdict(o)
        IN  /\ poll' = CASE v = "return True" -> Return(q, TRUE, NoId)
                         [] v = "return False" -> Return(q, FALSE, NoId)
                         [] OTHER -> NextAttempt(Sleep(q))
            /\ srv' = IF o = "ready"
                      THEN [srv EXCEPT !.readySeen = @ \cup {poll.file_id}]
                      ELSE srv
    /\ UNCHANGED <<fs, scan, ext, up, pipe, out>>

\* doc_sum.py lines 104-105
DsPollExhausted ==
    /\ poll.pc = "loop" /\ poll.which = "ds"
    /\ poll.attempt > poll.max_attempts
    /\ poll' = Return(poll, FALSE, NoId)
    /\ UNCHANGED <<fs, scan, ext, srv, up, pipe, out>>

\* document_analyzer.py lines 323-327: the first item of that name
Matches(items, name) == {i \in 1..Len(items) : items[i].name = name}

FirstMatch(items, name) ==
    items[CHOOSE i \in Matches(items, name) :
            \A j \in Matches(items, name) : i <= j]

\* document_analyzer.py lines 315-330
DaPollAttempt ==
    /\ poll.pc = "loop" /\ poll.which = "da"
    /\ poll.attempt <= poll.max_attempts
    /\ \E o \in DaOutcomes :
        LET items == Listing(o)
            hit == o # "error" /\ Matches(items, poll.file_name) # {}
            q == Query(poll, IF o = "error" THEN "error"
                             ELSE IF hit THEN "match" ELSE "no match")
        IN  IF o = "error"
            THEN /\ poll' = NextAttempt(Sleep(q))
                 /\ srv' = srv
            ELSE IF hit
            THEN LET it == FirstMatch(items, poll.file_name)
                 IN  /\ poll' = Return(q, FALSE, it.id)
                     /\ srv' = IF it.status = "ready"
                               THEN [srv EXCEPT !.readySeen = @ \cup {it.id}]
                               ELSE srv
            ELSE /\ poll' = NextAttempt(IF poll.attempt < poll.max_attempts
                                        THEN Sleep(q) ELSE q)
                 /\ srv' = srv
    /\ UNCHANGED <<fs, scan, ext, up, pipe, out>>

\* document_analyzer.py lines 331-332
DaPollExhausted ==
    /\ poll.pc = "loop" /\ poll.which = "da"
    /\ poll.attempt > poll.max_attempts
    /\ poll' = Return(poll, FALSE, NoId)
    /\ UNCHANGED <<fs, scan, ext, srv, up, pipe, out>>

-----------------------------------------------------------------------------
(* upload_file_to_amplify.  The environment of one call:                   *)
(*   exists       os.path.exists(file_path)                                *)
(*   placeholder  on Windows, and the file is a OneDrive placeholder       *)
(*   hydrate      robocopy: "copied", "nocopy" (no copy, or an empty one), *)
(*                "raised" (timeout or another exception)                  *)
(*   rmtree       shutil.rmtree succeeds                                   *)
(*   post         the metadata POST: "error" or the JSON answered          *)
(*   read         reading the file succeeds                                *)
(*   put          the PUT to the pre-signed URL succeeds                   *)
(*   status       the processing state the file record will show           *)

\* The JSON answered to the metadata POST: the "success" flag, whether
\* "uploadUrl" is there, whether "id" is there.
PostAnswers ==
    { [success |-> TRUE, uploadUrl |-> TRUE, hasId |-> TRUE],
      [success |-> TRUE, uploadUrl |-> TRUE, hasId |-> FALSE],
      [success |-> TRUE, uploadUrl |-> FALSE, hasId |-> TRUE],
      [success |-> FALSE, uploadUrl |-> TRUE, hasId |-> TRUE],
      [success |-> FALSE, uploadUrl |-> FALSE, hasId |-> FALSE] }

NoAnswer == [success |-> FALSE, uploadUrl |-> FALSE, hasId |-> FALSE]

\* A choice the call never reads is left at its first value.
UploadEnvs ==
    LET all == [exists : BOOLEAN, placeholder : BOOLEAN,
                hydrate : {"copied", "nocopy", "raised"}, rmtree : BOOLEAN,
                post : {"error", "answer"}, answer : PostAnswers,
                read : BOOLEAN, put : BOOLEAN, status : {"pending", "ready"}]
        first == [exists |-> TRUE, placeholder |-> FALSE, hydrate |-> "copied",
                  rmtree |-> TRUE, post |-> "error", answer |-> NoAnswer,
                  read |-> TRUE, put |-> TRUE, status |-> "pending"]
        answered(e) == e.exists /\ e.post = "answer"
    IN  {e \in all :
            /\ ~e.exists => e.placeholder = first.placeholder
            /\ ~e.placeholder => e.hydrate = first.hydrate /\ e.rmtree = first.rmtree
            /\ ~answered(e) => e.answer = first.answer
            /\ ~(answered(e) /\ e.answer.uploadUrl) => e.read = first.read
            /\ ~(answered(e) /\ e.answer.uploadUrl /\ e.read) => e.put = first.put
            /\ ~(answered(e) /\ (e.answer.uploadUrl \/ e.answer.hasId))
                    => e.status = first.status}

\* What a call did and returned.  ret: "None", "response" (upload_response)
\* or "raised"; id: the id in the response, NoId without one.
UpIdle ==
    [which |-> "none", ret |-> "None", answer |-> NoAnswer, id |-> NoId,
     posted |-> FALSE, postOk |-> FALSE, putDone |-> FALSE, putOk |-> FALSE,
     tmpMade |-> FALSE, tmpExists |-> FALSE, rmTried |-> FALSE,
     rmFailed |-> FALSE, registered |-> FALSE]

\* The server makes the file record when it answers the POST with an upload
\* URL or an id.
Registers(e) == e.post = "answer" /\ (e.answer.uploadUrl \/ e.answer.hasId)

Posted(u, e, id) ==
    [u EXCEPT !.posted = TRUE, !.postOk = (e.post = "answer"),
              !.answer = IF e.post = "answer" THEN e.answer ELSE NoAnswer,
              !.id = IF e.post = "answer" /\ e.answer.hasId THEN id ELSE NoId,
              !.registered = Registers(e)]

Put(u, e) == [u EXCEPT !.putDone = TRUE, !.putOk = e.put]

\* doc_sum.py lines 52-75
DsUpload(e, id) ==
    LET u0 == [UpIdle EXCEPT !.which = "ds"]
        u1 == Posted(u0, e, id)
    IN  IF e.post = "error" THEN [u1 EXCEPT !.ret = "None"]
        ELSE IF ~e.answer.uploadUrl THEN [u1 EXCEPT !.ret = "response"]
        ELSE IF ~e.read THEN [u1 EXCEPT !.ret = "raised"]
        ELSE IF ~e.put THEN [Put(u1, e) EXCEPT !.ret = "None"]
        ELSE [Put(u1, e) EXCEPT !.ret = "response"]

\* document_analyzer.py lines 121-150, called at line 176: the temporary
\* directory is made; without a usable copy it is removed again
Hydrate(u, e) ==
    IF e.hydrate = "copied"
    THEN [u EXCEPT !.tmpMade = TRUE, !.tmpExists = TRUE]
    ELSE [u EXCEPT !.tmpMade = TRUE, !.tmpExists = ~e.rmtree,
                   !.rmTried = TRUE, !.rmFailed = ~e.rmtree]

\* document_analyzer.py lines 252-259: the finally clause; temp_copy_dir is
\* set when the hydration gave a copy
FinallyOnSuccessOnly(u, e) ==
    IF u.ret = "response" /\ e.placeholder /\ e.hydrate = "copied" /\ u.tmpExists
    THEN [u EXCEPT !.tmpExists = ~e.rmtree, !.rmTried = TRUE,
                   !.rmFailed = ~e.rmtree]
    ELSE u
Finally(u, e) ==
    IF e.placeholder /\ e.hydrate = "copied" /\ u.tmpExists
    THEN [u EXCEPT !.tmpExists = ~e.rmtree, !.rmTried = TRUE,
                   !.rmFailed = ~e.rmtree]
    ELSE u

\* document_analyzer.py lines 162-251, then the finally clause
DaUpload(key, e, id) ==
    LET u0 == [UpIdle EXCEPT !.which = "da"]
    IN  IF ~key \/ ~e.exists THEN u0
        ELSE LET u1 == IF e.placeholder THEN Hydrate(u0, e) ELSE u0
                 u2 == Posted(u1, e, id)
                 u3 == IF e.post = "error" THEN u2
                       ELSE IF ~e.answer.success THEN u2
                       ELSE IF ~e.answer.uploadUrl THEN u2
                       ELSE IF ~e.read THEN u2
                       ELSE IF ~e.put THEN Put(u2, e)
                       ELSE [Put(u2, e) EXCEPT !.ret = "response"]
             IN  Finally(u3, e)

\* The file record the server makes for an upload it registered.
Register(u, e, name) ==
    IF u.registered
    THEN [srv EXCEPT !.files = Append(@, Item(name, srv.nextId, e.status, TRUE)),
                     !.nextId = @ + 1]
    ELSE srv

-----------------------------------------------------------------------------
(* The pipelines.                                                          *)
(*   pipe  prog: "summarize" (doc_sum.summarize_document) or "organize"    *)
(*         (document_analyzer.generate_organization_plan); pc; apiKey:     *)
(*         AMPLIFY_API_KEY is set; max_files (0: None); supported_files;   *)
(*         i: the file being handled; file_ids; log: per file, the upload  *)
(*         calls made, whether the upload gave a result, the poller calls, *)
(*         assigned: the id of the record the server made for the upload,  *)
(*         found: the id the poller returned                               *)
(*   out   requests: chat / summarization requests sent; fileIds and       *)
(*         listed: the ids and the paths of the last one; chat: the chat   *)
(*         response; dirMade, file, text: the output directory and file;   *)
(*         result and error: what the pipeline returned; exited, status,   *)
(*         outcome: the process ended, its exit status, and how it ended   *)

DsMaxAttempts == 10
DaMaxAttempts == 2
WaitSeconds == 20

PipeIdle ==
    [prog |-> "none", pc |-> "idle", apiKey |-> TRUE, max_files |-> 0,
     supported_files |-> <<>>, i |-> 1, file_ids |-> <<>>, log |-> <<>>]

OutIdle ==
    [requests |-> 0, fileIds |-> <<>>, listed |-> <<>>, chat |-> RespNone,
     dirMade |-> FALSE, file |-> "absent", text |-> "", written |-> FALSE,
     result |-> "none", error |-> "",
     exited |-> FALSE, status |-> 0, outcome |-> "none"]

NoLog ==
    [uploads |-> 0, ok |-> FALSE, polls |-> 0, assigned |-> NoId, found |-> NoId]

Failure(reason) == [out EXCEPT !.result = "failure", !.error = reason]

\* doc_sum.py line 115: upload_response = upload_file_to_amplify(file_path)
SdUpload ==
    /\ pipe.prog = "summarize" /\ pipe.pc = "start"
    /\ \E e \in UploadEnvs :
        LET u == DsUpload(e, srv.nextId)
        IN  /\ up' = u
            /\ srv' = Register(u, e, pipe.supported_files[1].name)
            /\ pipe' = [pipe EXCEPT !.pc = "uploaded",
                                    !.log[1].uploads = @ + 1,
                                    !.log[1].ok = (u.ret = "response")]
    /\ UNCHANGED <<fs, scan, ext, poll, out>>

\* doc_sum.py lines 116-126: the upload's result, the id, the poller called
SdUploaded ==
    /\ pipe.prog = "summarize" /\ pipe.pc = "uploaded"
    /\ up' = UpIdle
    /\ IF up.ret = "raised"
       THEN /\ pipe' = [pipe EXCEPT !.pc = "done"]
            /\ out' = [out EXCEPT !.result = "raised"]
            /\ poll' = poll
       ELSE IF up.ret = "None" \/ up.id = NoId
       THEN /\ pipe' = [pipe EXCEPT !.pc = "done"]
            /\ out' = [out EXCEPT !.result = "returned"]
            /\ poll' = poll
       ELSE /\ pipe' = [pipe EXCEPT !.pc = "polling", !.file_ids = <<up.id>>,
                                    !.log[1].polls = @ + 1]
            /\ out' = out
            /\ poll' = PollCall("ds", up.id, <<>>, DsMaxAttempts, WaitSeconds)
    /\ UNCHANGED <<fs, scan, ext, srv>>

\* doc_sum.py lines 126-152: the poller's verdict, then the request
SdSummarize ==
    /\ pipe.prog = "summarize" /\ pipe.pc = "polling" /\ poll.pc = "done"
    /\ pipe' = [pipe EXCEPT !.pc = "done"]
    /\ out' = IF poll.ret
              THEN [out EXCEPT !.requests = @ + 1, !.fileIds = pipe.file_ids,
                               !.result = "returned"]
              ELSE [out EXCEPT !.result = "returned"]
    /\ UNCHANGED <<fs, scan, ext, poll, srv, up>>

\* document_analyzer.py lines 425-426
Truncate(files, max_files) ==
    IF max_files # 0 /\ Len(files) > max_files
    THEN SubSeq(files, 1, max_files) ELSE files

\* document_analyzer.py lines 421-427
GoScan ==
    /\ pipe.prog = "organize" /\ pipe.pc = "start"
    /\ LET files == scan_directory_for_files(fs.root, fs.tree)
       IN  IF files = <<>>
           THEN /\ pipe' = [pipe EXCEPT !.pc = "done"]
                /\ out' = Failure("No supported files found")
           ELSE /\ pipe' = [pipe EXCEPT
                    !.pc = "upload",
                    !.supported_files = Truncate(files, pipe.max_files),
                    !.log = [k \in 1..Len(Truncate(files, pipe.max_files))
                                |-> NoLog]]
                /\ out' = out
    /\ UNCHANGED <<fs, scan, ext, poll, srv, up>>

\* document_analyzer.py lines 438-441, an upload without a result: the next
\* file
RetryFile(p) == p
SkipFile(p) == [p EXCEPT !.i = @ + 1]

\* document_analyzer.py lines 431-437: upload_result = upload_file_to_amplify
GoUpload ==
    /\ pipe.prog = "organize" /\ pipe.pc = "upload"
    /\ pipe.i <= Len(pipe.supported_files)
    /\ \E e \in UploadEnvs :
        LET u == DaUpload(pipe.apiKey, e, srv.nextId)
        IN  /\ up' = u
            /\ srv' = Register(u, e, pipe.supported_files[pipe.i].name)
            /\ pipe' = [pipe EXCEPT !.pc = "uploaded",
                                    !.log[pipe.i].uploads = @ + 1,
                                    !.log[pipe.i].ok = (u.ret = "response"),
                                    !.log[pipe.i].assigned =
                                        IF u.registered THEN srv.nextId
                                        ELSE NoId]
    /\ UNCHANGED <<fs, scan, ext, poll, out>>

\* document_analyzer.py lines 438-439: if upload_result, the poller called
GoUploaded ==
    /\ pipe.prog = "organize" /\ pipe.pc = "uploaded"
    /\ up' = UpIdle
    /\ IF up.ret = "response"
       THEN /\ pipe' = [pipe EXCEPT !.pc = "polling",
                                    !.log[pipe.i].polls = @ + 1]
            /\ poll' = PollCall("da", NoId, pipe.supported_files[pipe.i].name,
                                DaMaxAttempts, WaitSeconds)
       ELSE /\ pipe' = SkipFile([pipe EXCEPT !.pc = "upload"])
            /\ poll' = poll
    /\ UNCHANGED <<fs, scan, ext, srv, out>>

\* document_analyzer.py lines 439-441: the poller's answer
GoPolled ==
    /\ pipe.prog = "organize" /\ pipe.pc = "polling" /\ poll.pc = "done"
    /\ pipe' = [pipe EXCEPT
            !.pc = "upload", !.i = @ + 1,
            !.log[pipe.i].found = poll.found,
            !.file_ids = IF poll.found # NoId THEN Append(@, poll.found) ELSE @]
    /\ poll' = PollIdle
    /\ UNCHANGED <<fs, scan, ext, srv, up, out>>

\* document_analyzer.py line 443: if not file_ids
NoIds(file_ids) == file_ids = <<>>

\* document_analyzer.py line 485: organization_result.get("data", "");
\* line 488 writes it, and f.write raises TypeError unless it is a str
PlanContent(r) ==
    CASE r.data = "absent" -> Hit("")
      [] r.data = "str" -> Hit(r.dataStr)
      [] OTHER -> Miss

\* The chat responses tried: a failed request (None), {}, and the shapes of
\* a response.
ChatAnswers ==
    { RespNone,
      RespDict(FALSE, "absent", ""),
      RespDict(TRUE, "absent", ""),
      RespDict(TRUE, "null", ""),
      RespDict(TRUE, "str", "mkdir docs"),
      RespDict(FALSE, "str", ""),
      RespChoices(FALSE, "list", "dict", "dict", "absent",
                  [NoLeaves EXCEPT !["m.content"] = Str("mkdir docs")]),
      RespChoices(FALSE, "absent", "absent", "absent", "absent",
                  [NoLeaves EXCEPT !["d.output"] = Str("mkdir docs")]) }

\* document_analyzer.py lines 443-491: the chat request and the output file
GoFinish ==
    /\ pipe.prog = "organize" /\ pipe.pc = "upload"
    /\ pipe.i > Len(pipe.supported_files)
    /\ pipe' = [pipe EXCEPT !.pc = "done"]
    /\ IF NoIds(pipe.file_ids)
       THEN out' = Failure("No files uploaded")
       ELSE \E r \in ChatAnswers :
            LET sent == [out EXCEPT !.requests = @ + 1,
                                    !.fileIds = pipe.file_ids,
                                    !.listed = pipe.supported_files,
                                    !.chat = r]
            IN  out' =
                  IF ~RespTruthy(r)
                  THEN [sent EXCEPT !.result = "failure", !.error = "LLM failed"]
                  ELSE IF PlanContent(r).hit
                  THEN [sent EXCEPT !.dirMade = TRUE, !.file = "open",
                                    !.text = PlanContent(r).text,
                                    !.written = TRUE, !.result = "success"]
                  ELSE [sent EXCEPT !.dirMade = TRUE, !.file = "open",
                                    !.result = "raised"]
    /\ UNCHANGED <<fs, scan, ext, poll, srv, up>>

-----------------------------------------------------------------------------
(* The command-line entry points.  pipe.pc is "cli" before the pipeline is *)
(* called and "exited" when the process has ended.                         *)

\* doc_sum.py: the status the process ends with.  Lines 16, 161 and 166 call
\* sys.exit(1); nothing catches an exception of summarize_document, and the
\* interpreter ends with status 1 on an uncaught exception; after line 168
\* the script ends, status 0, whatever summarize_document printed.
DsExitCode(outcome) ==
    CASE outcome = "credential" -> 1
      [] outcome = "usage" -> 1
      [] outcome = "nofile" -> 1
      [] outcome = "error" -> 1
      [] outcome = "failure" -> 0
      [] outcome = "success" -> 0

\* document_analyzer.py: parse_args (line 499) ends the process with status
\* 2 on arguments it does not accept; sys.exit(2), line 507; sys.exit(0),
\* line 513; sys.exit(1), line 516; the script ends after line 510.
DaExitCode(outcome) ==
    CASE outcome = "usage" -> 2
      [] outcome = "failure" -> 2
      [] outcome = "interrupt" -> 0
      [] outcome = "error" -> 1
      [] outcome = "success" -> 0

Exit(o, outcome, code) ==
    [o EXCEPT !.exited = TRUE, !.status = code, !.outcome = outcome]

\* doc_sum.py lines 13-16 and 158-168, up to the call of summarize_document
DsMain ==
    /\ pipe.prog = "summarize" /\ pipe.pc = "cli"
    /\ \E argc \in {1, 2} :
        LET is_file == fs.root = "dir" /\ fs.tree # {}
            outcome == IF ~pipe.apiKey THEN "credential"
                       ELSE IF argc < 2 THEN "usage"
                       ELSE IF ~is_file THEN "nofile"
                       ELSE "none"
        IN  IF outcome = "none"
            THEN /\ pipe' = [pipe EXCEPT !.pc = "start"]
                 /\ out' = out
            ELSE /\ pipe' = [pipe EXCEPT !.pc = "exited"]
                 /\ out' = Exit(out, outcome, DsExitCode(outcome))
    /\ UNCHANGED <<fs, scan, ext, poll, srv, up>>

\* doc_sum.py line 168: summarize_document returned, or raised
DsExit ==
    /\ pipe.prog = "summarize" /\ pipe.pc = "done"
    /\ pipe' = [pipe EXCEPT !.pc = "exited"]
    /\ LET outcome == IF out.result = "raised" THEN "error"
                      ELSE IF out.requests = 0 THEN "failure"
                      ELSE "success"
       IN  out' = Exit(out, outcome, DsExitCode(outcome))
    /\ UNCHANGED <<fs, scan, ext, poll, srv, up>>

\* document_analyzer.py lines 495-504, up to the call of
\* generate_organization_plan
DaMain ==
    /\ pipe.prog = "organize" /\ pipe.pc = "cli"
    /\ \E accepted \in BOOLEAN :
        IF accepted
        THEN /\ pipe' = [pipe EXCEPT !.pc = "start"]
             /\ out' = out
        ELSE /\ pipe' = [pipe EXCEPT !.pc = "exited"]
             /\ out' = Exit(out, "usage", DaExitCode("usage"))
    /\ UNCHANGED <<fs, scan, ext, poll, srv, up>>

\* document_analyzer.py lines 504-510 and 514-516: the pipeline returned, or
\* raised
DaExit ==
    /\ pipe.prog = "organize" /\ pipe.pc = "done"
    /\ pipe' = [pipe EXCEPT !.pc = "exited"]
    /\ LET outcome == CASE out.result = "raised" -> "error"
                        [] out.result = "success" -> "success"
                        [] OTHER -> "failure"
       IN  out' = Exit(out, outcome, DaExitCode(outcome))
    /\ UNCHANGED <<fs, scan, ext, poll, srv, up>>

\* document_analyzer.py lines 511-513: KeyboardInterrupt inside the try
DaInterrupt ==
    /\ pipe.prog = "organize"
    /\ pipe.pc \in {"start", "upload", "uploaded", "polling", "done"}
    /\ pipe' = [pipe EXCEPT !.pc = "exited"]
    /\ out' = Exit(out, "interrupt", DaExitCode("interrupt"))
    /\ poll' = PollIdle
    /\ up' = UpIdle
    /\ UNCHANGED <<fs, scan, ext, srv>>

-----------------------------------------------------------------------------
(* The two pure functions called alone.                                    *)

ScanCall ==
    /\ scan.pc = "call"
    /\ scan' = [pc |-> "done",
                result |-> scan_directory_for_files(fs.root, fs.tree)]
    /\ UNCHANGED <<fs, ext, poll, srv, up, pipe, out>>

ExtractCall ==
    /\ ext.pc = "call"
    /\ ext' = [ext EXCEPT !.pc = "done",
                          !.out = _extract_text_from_amplify_response(ext.resp)]
    /\ UNCHANGED <<fs, scan, poll, srv, up, pipe, out>>

-----------------------------------------------------------------------------
(* Specifications.                                                         *)

SrvIdle == [files |-> <<>>, nextId |-> 1, readySeen |-> {}]

FsIdle == [root |-> "missing", tree |-> {}]
ScanIdle == [pc |-> "idle", result |-> <<>>]
ExtIdle == [pc |-> "idle", out |-> ""]

\* scan_directory_for_files on every tree of at most MaxTreeFiles files
InitScan ==
    /\ fs \in [root : RootKinds, tree : Trees(ScanPaths)]
    /\ scan = [pc |-> "call", result |-> <<>>]
    /\ ext = ExtIdle /\ poll = PollIdle /\ srv = SrvIdle /\ up = UpIdle
    /\ pipe = PipeIdle /\ out = OutIdle

NextScan == ScanCall

SpecScan == InitScan /\ [][NextScan]_vars

\* _extract_text_from_amplify_response on every response shape, with at most
\* MaxLeaves text-bearing fields set, each to "", to a text of its own (the
\* slot's name) or to a number.
InitExtract ==
    /\ \E shape \in Shapes :
       \E S \in SUBSET SettableSlots(shape) :
          /\ Cardinality(S) <= MaxLeaves
          /\ \E v \in [S -> {"empty", "text", "number"}] :
                ext = [pc |-> "call", out |-> "",
                       resp |-> [shape EXCEPT !.leaf =
                          [p \in LeafSlots |->
                              IF p \notin S THEN Absent
                              ELSE CASE v[p] = "empty" -> Str("")
                                     [] v[p] = "text" -> Str(p)
                                     [] OTHER -> Num("7")]]]
    /\ fs = FsIdle /\ scan = ScanIdle
    /\ poll = PollIdle /\ srv = SrvIdle /\ up = UpIdle
    /\ pipe = PipeIdle /\ out = OutIdle

NextExtract == ExtractCall

SpecExtract == InitExtract /\ [][NextExtract]_vars

\* Either poller called alone, the listing holding earlier records or not.
PollRegistries ==
    { <<>>,
      <<Item(FN_a_py, 1, "ready", TRUE)>>,
      <<Item(FN_b_txt, 1, "ready", FALSE)>>,
      <<Item(FN_b_txt, 1, "ready", FALSE), Item(FN_a_py, 2, "pending", TRUE)>> }

InitPoll ==
    /\ \E which \in {"ds", "da"}, m \in 0..MaxAttempts, w \in 0..MaxWait :
          poll = PollCall(which, IF which = "ds" THEN 1 ELSE NoId,
                          IF which = "da" THEN FN_a_py ELSE <<>>, m, w)
    /\ \E files \in PollRegistries :
          srv = [files |-> files, nextId |-> Len(files) + 1, readySeen |-> {}]
    /\ fs = FsIdle /\ scan = ScanIdle /\ ext = ExtIdle /\ up = UpIdle
    /\ pipe = PipeIdle /\ out = OutIdle

NextPoll ==
    \/ DsPollAttempt
    \/ DsPollExhausted
    \/ DaPollAttempt
    \/ DaPollExhausted

\* The poller is a loop of one thread: a step that can be taken is taken.
SpecPoll == InitPoll /\ [][NextPoll]_vars /\ WF_vars(NextPoll)

\* The two pipelines.
PipeTrees ==
    { {},
      {[dir |-> <<>>, name |-> FN_c_exe]},
      {[dir |-> <<>>, name |-> FN_a_py]},
      {[dir |-> <<>>, name |-> FN_a_py], [dir |-> <<".git">>, name |-> FN_a_py]},
      {[dir |-> <<>>, name |-> FN_a_py], [dir |-> <<"src">>, name |-> FN_a_py]},
      {[dir |-> <<>>, name |-> FN_a_py], [dir |-> <<>>, name |-> FN_b_TXT],
       [dir |-> <<"src">>, name |-> FN_d_md_bak]},
      {[dir |-> <<>>, name |-> FN_a_py], [dir |-> <<>>, name |-> FN_b_TXT],
       [dir |-> <<"src">>, name |-> FN_a_py]} }

\* The file records of the last day, before the run.
Earlier == { <<>>, <<Item(FN_a_py, 1, "ready", FALSE)>> }

\* generate_organization_plan on each tree, with the key and without, the
\* root a directory or missing, max_files None or 2; summarize_document on
\* one file.
Init ==
    /\ \/ /\ \E tree \in PipeTrees, m \in {0, 2} :
                /\ fs = [root |-> "dir", tree |-> tree]
                /\ pipe = [PipeIdle EXCEPT !.prog = "organize", !.pc = "start",
                                           !.max_files = m]
          /\ \E files \in Earlier :
                srv = [files |-> files, nextId |-> Len(files) + 1,
                       readySeen |-> {}]
       \/ /\ \E root \in {"dir", "missing"}, key \in BOOLEAN :
                /\ fs = [root |-> root,
                         tree |-> {[dir |-> <<>>, name |-> FN_a_py]}]
                /\ pipe = [PipeIdle EXCEPT !.prog = "organize", !.pc = "start",
                                           !.apiKey = key]
          /\ srv = SrvIdle
       \/ /\ fs = [root |-> "dir", tree |-> {[dir |-> <<>>, name |-> FN_a_py]}]
          /\ pipe = [PipeIdle EXCEPT
                !.prog = "summarize", !.pc = "start",
                !.supported_files = <<[dir |-> <<>>, name |-> FN_a_py]>>,
                !.log = <<NoLog>>]
          /\ srv = SrvIdle
    /\ scan = ScanIdle /\ ext = ExtIdle /\ poll = PollIdle /\ up = UpIdle
    /\ out = OutIdle

Next ==
    \/ SdUpload
    \/ SdUploaded
    \/ SdSummarize
    \/ DsPollAttempt
    \/ DsPollExhausted
    \/ GoScan
    \/ GoUpload
    \/ GoUploaded
    \/ GoPolled
    \/ DaPollAttempt
    \/ DaPollExhausted
    \/ GoFinish

Spec == Init /\ [][Next]_vars

\* The two scripts run from the command line: document_analyzer.py on a
\* directory, doc_sum.py on a file that exists or not, AMPLIFY_API_KEY set
\* or not.
CliTrees ==
    { {},
      {[dir |-> <<>>, name |-> FN_a_py]},
      {[dir |-> <<>>, name |-> FN_a_py], [dir |-> <<>>, name |-> FN_b_TXT]} }

InitCli ==
    /\ \/ /\ \E tree \in CliTrees, key \in BOOLEAN :
                /\ fs = [root |-> "dir", tree |-> tree]
                /\ pipe = [PipeIdle EXCEPT !.prog = "organize", !.pc = "cli",
                                           !.apiKey = key]
       \/ /\ \E tree \in {{}, {[dir |-> <<>>, name |-> FN_a_py]}},
                key \in BOOLEAN :
                /\ fs = [root |-> "dir", tree |-> tree]
                /\ pipe = [PipeIdle EXCEPT
                      !.prog = "summarize", !.pc = "cli", !.apiKey = key,
                      !.supported_files = <<[dir |-> <<>>, name |-> FN_a_py]>>,
                      !.log = <<NoLog>>]
    /\ srv = SrvIdle
    /\ scan = ScanIdle /\ ext = ExtIdle /\ poll = PollIdle /\ up = UpIdle
    /\ out = OutIdle

NextCli ==
    \/ DsMain
    \/ DsExit
    \/ DaMain
    \/ DaExit
    \/ DaInterrupt
    \/ Next

SpecCli == InitCli /\ [][NextCli]_vars

-----------------------------------------------------------------------------
(* Claims.                                                                 *)

DsDone == poll.which = "ds" /\ poll.pc = "done"

\* C1: the doc_sum poller returns True exactly when one of its queries, all
\* within the max_attempts budget, reported "ready"; it returns False after
\* a "failed" and after the attempts are exhausted.
C1_ReadyIffTrue ==
    DsDone =>
        /\ poll.queries <= poll.max_attempts
        /\ poll.ret <=> "ready" \in poll.seen
        /\ "failed" \in poll.seen => ~poll.ret
        /\ poll.seen \cap {"ready", "failed"} = {} =>
                ~poll.ret /\ poll.queries = poll.max_attempts

C1_Witness ==
    /\ DsDone /\ poll.ret
    /\ {"error", "READY"} \subseteq poll.seen
    /\ poll.queries = poll.max_attempts

\* One query per attempt begun, at most max_attempts queries, none after a
\* terminal observation, at most max_attempts sleeps, each of wait_seconds.
C4_Bounded ==
    poll.pc # "idle" =>
        /\ poll.queries <= poll.max_attempts
        /\ poll.pc = "loop" => poll.queries = poll.attempt - 1
        /\ poll.pc = "done" =>
                poll.queries = IF poll.seen \cap Terminal # {}
                               THEN poll.attempt ELSE poll.attempt - 1
        /\ poll.late = 0
        /\ poll.sleeps <= poll.max_attempts
        /\ poll.slept = poll.sleeps * poll.wait_seconds
        /\ poll.slept <= poll.max_attempts * poll.wait_seconds

\* C4: both pollers, for every max_attempts >= 0 and whatever the queries
\* answer, keep within these bounds at every moment, and terminate.
C4_BoundedAndTerminates == []C4_Bounded /\ <>(poll.pc = "done")

C4_Witness ==
    /\ poll.pc = "done" /\ poll.which = "da"
    /\ poll.max_attempts = MaxAttempts /\ poll.wait_seconds = MaxWait
    /\ poll.sleeps = MaxAttempts /\ poll.found = NoId

\* C2: either uploader returns the upload response only after the metadata
\* POST succeeded, reported success and gave an upload URL, and the PUT was
\* made and succeeded; in every other execution it returns None.
C2_AllOrNothing ==
    up.which # "none" =>
        /\ up.ret = "response" =>
                /\ up.postOk /\ up.answer.success /\ up.answer.uploadUrl
                /\ up.putDone /\ up.putOk
        /\ up.ret # "response" => up.ret = "None"

\* C3: every file id in a chat / summarization request is one whose
\* processing state the poller saw to be "ready".
C3_OnlyReadyIds ==
    out.requests > 0 => \A id \in Range(out.fileIds) : id \in srv.readySeen

C6_Extraction ==
    ext.pc = "done" =>
        LET r == ext.resp
        IN  /\ (HasDict(r, "m") /\ r.leaf["m.content"].t = "str"
                    /\ r.leaf["m.content"].s # "")
                    => ext.out = r.leaf["m.content"].s
            /\ (r.top = "dict" /\ r.data = "str") => ext.out = r.dataStr
            /\ (RespTruthy(r) /\ ~FromChoices(r).hit /\ ~FromData(r).hit)
                    => ext.out = Dumps(r)
            /\ (RespTruthy(r) /\ r.data # "str") => ext.out # ""

Organize == pipe.prog = "organize"
Summarize == pipe.prog = "summarize"

AllFilesReady ==
    /\ pipe.supported_files # <<>>
    /\ Len(pipe.file_ids) = Len(pipe.supported_files)
    /\ \A i \in 1..Len(pipe.log) : pipe.log[i].ok

\* C7: a run of generate_organization_plan in which every scanned file
\* uploaded and became available and the chat call returned a response
\* reports success and has written the text of the chat response, as it
\* is, to the output file.
C7_PlanIsChatText ==
    (Organize /\ pipe.pc = "done" /\ AllFilesReady /\ RespTruthy(out.chat)) =>
        /\ out.result = "success"
        /\ out.file = "open" /\ out.written
        /\ out.text = _extract_text_from_amplify_response(out.chat)

\* A file name whose last dot, with something other than dots before it,
\* starts one of the allowed extensions, whatever the case of its letters.
AllowedName(name) ==
    \E e \in get_supported_file_extensions :
        /\ Len(name) > Len(e)
        /\ Lower(SubSeq(name, Len(name) - Len(e) + 1, Len(name))) = e
        /\ \E k \in 1..(Len(name) - Len(e)) : name[k] # "."

UnderExcluded(p) == \E i \in 1..Len(p.dir) : p.dir[i] \in ExcludedDirs

\* C8: the scan lists, exactly once, every file of the tree with an allowed
\* extension and no excluded ancestor directory, and nothing else; a root
\* that is missing or not a directory gives the empty list.
C8_ScanResult ==
    scan.pc = "done" =>
        /\ fs.root = "dir" =>
                \A p \in fs.tree :
                    (AllowedName(p.name) /\ ~UnderExcluded(p))
                        => Count(scan.result, p) = 1
        /\ \A i \in 1..Len(scan.result) :
                /\ scan.result[i] \in fs.tree
                /\ AllowedName(scan.result[i].name)
                /\ ~UnderExcluded(scan.result[i])
        /\ fs.root # "dir" => scan.result = <<>>

C8_Witness ==
    /\ scan.pc = "done" /\ fs.root = "dir" /\ Len(scan.result) = 1
    /\ scan.result[1].name = FN_b_TXT
    /\ \E p \in fs.tree : UnderExcluded(p) /\ AllowedName(p.name)

Uploads == {i \in 1..Len(pipe.log) : pipe.log[i].uploads > 0}

\* C9: in generate_organization_plan a stage without results ends the run
\* with success False and a reason, nothing of the later stages is done
\* (no upload after an empty scan, no chat request without ids), and the
\* output directory and file are left alone; an output file exists only in
\* a run that returns success True.
C9_ShortCircuit ==
    Organize =>
        /\ out.result = "failure" =>
                /\ out.error \in {"No supported files found",
                                  "No files uploaded", "LLM failed"}
                /\ ~out.dirMade /\ out.file = "absent" /\ ~out.written
        /\ out.error = "No supported files found" =>
                Uploads = {} /\ out.requests = 0
        /\ out.error = "No files uploaded" => out.requests = 0
        /\ pipe.pc = "done" =>
                /\ pipe.supported_files = <<>> =>
                        /\ out.result = "failure"
                        /\ out.error = "No supported files found"
                /\ (pipe.supported_files # <<>> /\ pipe.file_ids = <<>>) =>
                        /\ out.result = "failure"
                        /\ out.error = "No files uploaded"
                /\ (out.requests > 0 /\ ~RespTruthy(out.chat)) =>
                        /\ out.result = "failure"
                        /\ out.error = "LLM failed"
        /\ (out.dirMade \/ out.file # "absent") => out.result = "success"

\* C10: generate_organization_plan uploads every file exactly once, polls
\* it exactly when its upload gave a result, goes on after a failure, and
\* sends the chat request exactly when some file gave an id;
\* summarize_document sends no request after an upload without a result,
\* a response without an id or a poller that returned False.
C10_FailurePolicy ==
    /\ \A i \in 1..Len(pipe.log) :
            /\ pipe.log[i].uploads <= 1 /\ pipe.log[i].polls <= 1
            /\ pipe.log[i].polls = 1 => pipe.log[i].ok
    /\ out.requests <= 1
    /\ (Organize /\ pipe.pc = "done") =>
            /\ \A i \in 1..Len(pipe.log) :
                    /\ pipe.log[i].uploads = 1
                    /\ pipe.log[i].polls = 1 <=> pipe.log[i].ok
            /\ out.requests = 1 <=> pipe.file_ids # <<>>
    /\ (Summarize /\ pipe.pc = "done") =>
            out.requests = 1 <=>
                /\ pipe.log[1].ok /\ pipe.file_ids # <<>>
                /\ DsDone /\ poll.ret

C10_Witness ==
    /\ Organize /\ pipe.pc = "done" /\ out.requests = 1
    /\ \E i, j, k \in 1..Len(pipe.log) :
            /\ i < j /\ j < k
            /\ ~pipe.log[i].ok
            /\ pipe.log[j].ok /\ Len(pipe.file_ids) = 1
            /\ pipe.log[k].polls = 1

\* C11: a run from the command line ends with a non-zero status after bad
\* usage, a pipeline failure or an unexpected error, with a status that
\* none of the other two of these outcomes gives in that script; with status
\* zero only after success or an interrupt; and, unless interrupted, with a
\* non-zero status when the credential is missing.
FailureOutcomes == {"usage", "failure", "error"}

ExitCodeOf(prog, outcome) ==
    IF prog = "summarize" THEN DsExitCode(outcome) ELSE DaExitCode(outcome)

C11_ExitCodes ==
    pipe.pc = "exited" =>
        /\ out.outcome \in FailureOutcomes =>
                /\ out.status # 0
                /\ \A o \in FailureOutcomes \ {out.outcome} :
                        ExitCodeOf(pipe.prog, o) # out.status
        /\ out.status = 0 => out.outcome \in {"success", "interrupt"}
        /\ (~pipe.apiKey /\ out.outcome # "interrupt") => out.status # 0

\* C12: the relative paths listed in the chat prompt of
\* generate_organization_plan are the paths of the files whose ids are sent:
\* as many paths as ids, and no path of a file that gave no id.
C12_PromptListsSentFiles ==
    (Organize /\ out.requests > 0) =>
        /\ Len(out.listed) = Len(out.fileIds)
        /\ \A k \in 1..Len(out.listed) : pipe.log[k].found # NoId

\* C13: every id sent to the chat request of generate_organization_plan is
\* the id of the record this run's upload of a scanned file made, and a file
\* contributes no id but its own, whatever else the listing holds.
C13_IdIsUploadId ==
    (Organize /\ out.requests > 0) =>
        /\ \A id \in Range(out.fileIds) :
                \E k \in 1..Len(pipe.log) :
                    pipe.log[k].assigned # NoId /\ pipe.log[k].assigned = id
        /\ \A k \in 1..Len(pipe.log) :
                pipe.log[k].found # NoId
                    => pipe.log[k].found = pipe.log[k].assigned


=============================================================================
